---- MODULE Spec2Model ----
(***************************************************************************)
(* A grid of TIS-100 nodes: the per-node execution engine (cpu.rs) and the *)
(* one-slot port fabric (port.rs), driven tick by tick as "execute on      *)
(* every node, then write_cycle on every node".                            *)
(***************************************************************************)
EXTENDS Integers, Sequences, FiniteSets, TLC

\* ------------------------------------------------------------------ bounds

\* A run is checked for this many ticks of the grid.
MaxTicks == 5

\* ------------------------------------------------------------ i32 values

\* acc, bak and pc are i32 (CpuState).
MaxI32 == 2147483647

MinI32 == (-MaxI32) - 1

\* a + b in two's complement, computed without leaving the i32 range.
wrapping_add(a, b) ==
    IF b > 0 /\ a > MaxI32 - b THEN (a - MaxI32 - 1) + (b - MaxI32 - 1)
    ELSE IF b < 0 /\ a < MinI32 - b THEN (a + MaxI32 + 1) + (b + MaxI32 + 1)
    ELSE a + b

add_overflows(a, b) ==
    (b > 0 /\ a > MaxI32 - b) \/ (b < 0 /\ a < MinI32 - b)

\* a - b in two's complement, computed without leaving the i32 range.
wrapping_sub(a, b) ==
    IF b < 0 /\ a > MaxI32 + b THEN (a - MaxI32 - 1) - (b + MaxI32 + 1)
    ELSE IF b > 0 /\ a < MinI32 + b THEN (a + MaxI32 + 1) - (b - MaxI32 - 1)
    ELSE a - b

sub_overflows(a, b) ==
    (b < 0 /\ a > MaxI32 + b) \/ (b > 0 /\ a < MinI32 + b)

wrapping_neg(a) == IF a = MinI32 THEN MinI32 ELSE -a

neg_overflows(a) == a = MinI32

\* Rust's % on i32: the remainder has the sign of the dividend.
rem(a, b) ==
    IF a >= 0 THEN a % b
    ELSE LET m == a % b IN IF m = 0 THEN 0 ELSE m - b

\* ------------------------------------------------------------- Option<T>

None == [some |-> FALSE, v |-> 0]

Some(x) == [some |-> TRUE, v |-> x]

\* ------------------------------------------------------ instruction model

Cardinal == {"Up", "Down", "Left", "Right"}

Port == Cardinal \cup {"Any", "Last"}

\* Operand
Lit(i) == [k |-> "Lit", i |-> i, p |-> "Up"]

ACC == [k |-> "ACC", i |-> 0, p |-> "Up"]

OpPort(p) == [k |-> "Port", i |-> 0, p |-> p]

\* Condition
Condition == {"Unconditional", "Ez", "Nz", "Gz", "Lz"}

\* Instruction
NOP == [op |-> "NOP", a |-> ACC, b |-> ACC, cond |-> "Unconditional", dst |-> ""]

MOV(src, dst) == [op |-> "MOV", a |-> src, b |-> dst, cond |-> "Unconditional", dst |-> ""]

SWP == [op |-> "SWP", a |-> ACC, b |-> ACC, cond |-> "Unconditional", dst |-> ""]

SAV == [op |-> "SAV", a |-> ACC, b |-> ACC, cond |-> "Unconditional", dst |-> ""]

ADD(addend) == [op |-> "ADD", a |-> addend, b |-> ACC, cond |-> "Unconditional", dst |-> ""]

SUB(subtrahend) == [op |-> "SUB", a |-> subtrahend, b |-> ACC, cond |-> "Unconditional", dst |-> ""]

NEG == [op |-> "NEG", a |-> ACC, b |-> ACC, cond |-> "Unconditional", dst |-> ""]

J(cond, dst) == [op |-> "J", a |-> ACC, b |-> ACC, cond |-> cond, dst |-> dst]

JRO(dst) == [op |-> "JRO", a |-> dst, b |-> ACC, cond |-> "Unconditional", dst |-> ""]

\* ------------------------------------------------------------- Executable

\* InstructionLine
InstructionLine(insn, srcline) == [insn |-> insn, srcline |-> srcline]

\* Executable { lines, labels }
Executable(lines, labels) == [lines |-> lines, labels |-> labels]

len(e) == Len(e.lines)

insn_at(e, pc) == e.lines[pc + 1].insn

srcline_at(e, pc) == e.lines[pc + 1].srcline

label_line(e, label) == e.labels[label]

\* ------------------------------------------------------------------ ports

\* CpuWritePorts: four one-cell mailboxes.
CpuWritePorts_new == [up |-> None, down |-> None, left |-> None, right |-> None]

\* CpuWritePorts::get_port; an index other than a cardinal direction panics.
get_port(w, p) ==
    CASE p = "Up" -> w.up
      [] p = "Down" -> w.down
      [] p = "Left" -> w.left
      [] p = "Right" -> w.right

get_port_panics(p) == p \notin Cardinal

set_all(w, val) == [w EXCEPT !.up = val, !.down = val, !.left = val, !.right = val]

\* read without the clearing of the slots: a faulty variant, against which
\* C3 is tested.
read_no_clear(w, p) == [ret |-> get_port(w, p), ports |-> w]

\* CpuWritePorts::read: [ret, ports]
read(w, p) ==
    LET ret == get_port(w, p) IN
    IF ret.some THEN [ret |-> ret, ports |-> set_all(w, None)]
    ELSE [ret |-> ret, ports |-> w]

\* write_any_finished that reports completion whatever the slots hold: a
\* faulty variant, against which C30 is tested.
write_any_finished_always(w) == TRUE

\* write_any_finished that looks at the UP slot only: a faulty variant,
\* against which C6 is tested.
write_any_finished_up_only(w) == ~w.up.some

\* CpuWritePorts::write_any_finished
write_any_finished(w) ==
    ~(w.up.some \/ w.down.some \/ w.left.some \/ w.right.some)

\* CpuWritePorts::write_finished, which cpu.rs calls and port.rs lacks: the
\* write is finished when a reader has emptied the slots.
write_finished(w) == write_any_finished(w)

\* CpuWritePorts::get_last, which cpu.rs calls and port.rs lacks: the
\* fabric starts with UP, and nothing in port.rs records a reader's
\* direction.
get_last(w) == "Up"

\* A write_port that overwrites a full slot and reports success: a faulty
\* variant, against which C18 is tested.
write_port_overwrite(w, p, val) ==
    [ret |-> TRUE,
     ports |-> CASE p = "Up" -> [w EXCEPT !.up = Some(val)]
                 [] p = "Down" -> [w EXCEPT !.down = Some(val)]
                 [] p = "Left" -> [w EXCEPT !.left = Some(val)]
                 [] p = "Right" -> [w EXCEPT !.right = Some(val)]]

\* CpuWritePorts::write_port on a cardinal direction: [ret, ports]
write_port(w, p, val) ==
    IF get_port(w, p) = None
    THEN [ret |-> TRUE,
          ports |-> CASE p = "Up" -> [w EXCEPT !.up = Some(val)]
                      [] p = "Down" -> [w EXCEPT !.down = Some(val)]
                      [] p = "Left" -> [w EXCEPT !.left = Some(val)]
                      [] p = "Right" -> [w EXCEPT !.right = Some(val)]]
    ELSE [ret |-> FALSE, ports |-> w]

\* struct CpuPort { val: Option<i32> }: the model keeps the field itself.
CpuPort_new == None

\* <CpuPort as Port>::read: takes the value out, [ret, port]
CpuPort_read(c) == [ret |-> c, port |-> None]

\* <CpuPort as Port>::write: stores into an empty port only, [ret, port]
CpuPort_write(c, val) ==
    IF c = None
    THEN [ret |-> TRUE, port |-> Some(val)]
    ELSE [ret |-> FALSE, port |-> c]

\* ------------------------------------------------------------ grid wiring

\* Two nodes in a column: node 1 sits above node 2.
Nodes == {1, 2}

HasNeighbour(n, d) == (n = 1 /\ d = "Down") \/ (n = 2 /\ d = "Up")

Neighbour(n, d) == IF n = 1 THEN 2 ELSE 1

Opposite(d) ==
    CASE d = "Up" -> "Down"
      [] d = "Down" -> "Up"
      [] d = "Left" -> "Right"
      [] d = "Right" -> "Left"

\* ------------------------------------------------------------- cpu state

\* ExecState
EXEC == [m |-> "EXEC", p |-> "Up"]

READ(p) == [m |-> "READ", p |-> p]

WRITE(p) == [m |-> "WRITE", p |-> p]

\* Option<(Port, i32)>
NoWrite == [some |-> FALSE, port |-> "Up", val |-> 0]

PendingWrite(p, i) == [some |-> TRUE, port |-> p, val |-> i]

\* A reset state whose last is DOWN: a faulty variant, against which C17 is
\* tested.
Cpu_new_last_down ==
    [acc |-> 0, bak |-> 0, pc |-> 0, pending_write |-> NoWrite,
     exec_state |-> EXEC, last |-> "Down"]

\* CpuState::default() and CpuPorts.last as Cpu::new sets it
Cpu_new ==
    [acc |-> 0, bak |-> 0, pc |-> 0, pending_write |-> NoWrite,
     exec_state |-> EXEC, last |-> "Up"]

\* The external inputs that have a producer: a neighbour outside the grid,
\* whose CpuWritePorts the environment writes. The other external inputs are
\* read handles that never hold a value (DummyReadPort).
ExtInputs == {<<1, "Up">>, <<2, "Down">>, <<2, "Left">>}

\* What a read through the handle of node n for direction d leaves, r being
\* what CpuWritePorts::read returned: [ret, G]. A successful read is noted in
\* G.reads.
ReadPort_result(G, n, d, r) ==
    [ret |-> r.ret,
     G |-> [G EXCEPT !.out = IF HasNeighbour(n, d)
                             THEN [@ EXCEPT ![Neighbour(n, d)] = r.ports] ELSE @,
                     !.inp = IF HasNeighbour(n, d) THEN @
                             ELSE [@ EXCEPT ![<<n, d>>] = r.ports],
                     !.reads = IF r.ret.some
                               THEN Append(@, [n |-> n, d |-> d, v |-> r.ret.v])
                               ELSE @]]

\* The read handle node n holds for direction d, a CpuWritePortsReader of the
\* facing slot of the neighbour in that direction (a handle that never holds
\* a value where there is no producer): [ret, G]
ReadPort_read(G, n, d) ==
    IF ~HasNeighbour(n, d) /\ <<n, d>> \notin ExtInputs THEN [ret |-> None, G |-> G]
    ELSE ReadPort_result(G, n, d,
             read(IF HasNeighbour(n, d) THEN G.out[Neighbour(n, d)] ELSE G.inp[<<n, d>>],
                  Opposite(d)))

\* A probe order that begins with LEFT: a faulty variant, against which C10
\* is tested.
ProbeOrder_left_first == <<"Left", "Up", "Down", "Right">>

\* The order in which a read from ANY probes the four read handles.
ProbeOrder == <<"Up", "Down", "Left", "Right">>

\* The loop of CpuReadPorts::read_port for Port::Any, from position i; r is
\* what the handle at position i returned.
RECURSIVE read_any(_, _, _)
read_any_step(G, n, i, r) ==
    IF r.ret.some
    THEN [ret |-> r.ret, G |-> [r.G EXCEPT !.cpu[n].last = ProbeOrder[i]]]
    ELSE read_any(r.G, n, i + 1)

read_any(G, n, i) ==
    IF i > Len(ProbeOrder) THEN [ret |-> None, G |-> G]
    ELSE read_any_step(G, n, i, ReadPort_read(G, n, ProbeOrder[i]))

\* CpuReadPorts::read_port (through CpuPorts::read_port): [ret, G]
read_port(G, n, port) ==
    IF port = "Any" THEN read_any(G, n, 1)
    ELSE ReadPort_read(G, n, IF port = "Last" THEN G.cpu[n].last ELSE port)

\* CpuPorts::write_port to the resolved direction p; the value
\* CpuWritePorts::write_port returns is dropped. The call is noted in G.writes.
CpuPorts_write_to(G, n, p, val) ==
    IF get_port_panics(p) THEN [G EXCEPT !.panic = "Invalid port"]
    ELSE [G EXCEPT !.out[n] = write_port(@, p, val).ports,
                   !.writes = Append(@, [n |-> n, p |-> p, v |-> val])]

\* CpuPorts::write_port
CpuPorts_write_port(G, n, port, val) ==
    CpuPorts_write_to(G, n, IF port = "Last" THEN G.cpu[n].last ELSE port, val)

\* A write_finished that never reports completion: a faulty variant, against
\* which C29 is tested.
CpuPorts_write_finished_never(G, n, port) == [ret |-> FALSE, G |-> G]

\* CpuPorts::write_finished: [ret, G]
CpuPorts_write_finished(G, n, port) ==
    [ret |-> write_finished(G.out[n]),
     G |-> IF write_finished(G.out[n]) /\ port = "Any"
           THEN [G EXCEPT !.cpu[n].last = get_last(G.out[n])]
           ELSE G]

\* The Operand::Port arm without the READ state of a read that found
\* nothing: a faulty variant, against which C7 is tested.
get_operand_port_no_read_state(n, p, r) ==
    [val |-> r.ret, G |-> [r.G EXCEPT !.cpu[n].exec_state = EXEC]]

\* The Operand::Port arm of get_operand, r being what read_port returned.
get_operand_port(n, p, r) ==
    [val |-> r.ret,
     G |-> [r.G EXCEPT !.cpu[n].exec_state = IF r.ret = None THEN READ(p) ELSE EXEC]]

\* get_operand: [val, G]
get_operand(G, n, op) ==
    CASE op.k = "Lit" -> [val |-> Some(op.i), G |-> G]
      [] op.k = "ACC" -> [val |-> Some(G.cpu[n].acc), G |-> G]
      [] op.k = "Port" -> get_operand_port(n, op.p, read_port(G, n, op.p))

\* update_pc without the correction of a negative remainder: a faulty
\* variant, against which C1 is tested.
update_pc_no_negative_fix(G, n, advance) ==
    IF advance /\ G.overflow_checks /\ add_overflows(G.cpu[n].pc, 1)
    THEN [G EXCEPT !.panic = "attempt to add with overflow"]
    ELSE [G EXCEPT !.cpu[n].pc =
              rem(IF advance THEN wrapping_add(@, 1) ELSE @, len(G.exe[n]))]

\* Cpu::update_pc
update_pc(G, n, advance) ==
    IF advance /\ G.overflow_checks /\ add_overflows(G.cpu[n].pc, 1)
    THEN [G EXCEPT !.panic = "attempt to add with overflow"]
    ELSE [G EXCEPT !.cpu[n].pc =
              LET pc1 == IF advance THEN wrapping_add(@, 1) ELSE @
                  pc2 == rem(pc1, len(G.exe[n]))
              IN IF pc2 < 0 THEN len(G.exe[n]) + pc2 ELSE pc2]

\* The conditions with Gz read as acc >= 0: a faulty variant, against which
\* C15 is tested.
cond_holds_gz_nonneg(cond, acc) ==
    CASE cond = "Unconditional" -> TRUE
      [] cond = "Ez" -> acc = 0
      [] cond = "Nz" -> acc # 0
      [] cond = "Gz" -> acc >= 0
      [] cond = "Lz" -> acc < 0

\* The condition of a J instruction against acc.
cond_holds(cond, acc) ==
    CASE cond = "Unconditional" -> TRUE
      [] cond = "Ez" -> acc = 0
      [] cond = "Nz" -> acc # 0
      [] cond = "Gz" -> acc > 0
      [] cond = "Lz" -> acc < 0

\* The MOV arm with the advance of pc forgotten for ACC: a faulty variant,
\* against which C16 is tested.
execute_mov_acc_no_advance(n, dst, r) ==
    IF r.val.some
    THEN CASE dst.k = "Lit" ->
                [advance_pc |-> FALSE,
                 G |-> [r.G EXCEPT !.panic = "Cannot store to a literal"]]
           [] dst.k = "ACC" ->
                [advance_pc |-> FALSE,
                 G |-> [r.G EXCEPT !.cpu[n].acc = r.val.v]]
           [] dst.k = "Port" ->
                [advance_pc |-> FALSE,
                 G |-> [r.G EXCEPT !.cpu[n].pending_write = PendingWrite(dst.p, r.val.v)]]
    ELSE [advance_pc |-> FALSE, G |-> r.G]

\* The MOV arm of Cpu::execute, r being the source as get_operand returned
\* it: [advance_pc, G]
execute_mov(n, dst, r) ==
    IF r.val.some
    THEN CASE dst.k = "Lit" ->
                [advance_pc |-> FALSE,
                 G |-> [r.G EXCEPT !.panic = "Cannot store to a literal"]]
           [] dst.k = "ACC" ->
                [advance_pc |-> TRUE,
                 G |-> [r.G EXCEPT !.cpu[n].acc = r.val.v]]
           [] dst.k = "Port" ->
                [advance_pc |-> FALSE,
                 G |-> [r.G EXCEPT !.cpu[n].pending_write = PendingWrite(dst.p, r.val.v)]]
    ELSE [advance_pc |-> FALSE, G |-> r.G]

\* The match of Cpu::execute on the instruction at pc: [advance_pc, G]. c is
\* the CpuState before the instruction and r the operand as get_operand
\* returned it, for the instructions that take one.
execute_insn(G, n, insn, c, r) ==
    CASE insn.op = "NOP" -> [advance_pc |-> TRUE, G |-> G]
      [] insn.op = "MOV" -> execute_mov(n, insn.b, r)
      [] insn.op = "SWP" ->
            [advance_pc |-> TRUE,
             G |-> [G EXCEPT !.cpu[n].acc = c.bak, !.cpu[n].bak = c.acc]]
      [] insn.op = "SAV" ->
            [advance_pc |-> TRUE, G |-> [G EXCEPT !.cpu[n].bak = c.acc]]
      [] insn.op = "ADD" ->
            IF r.val.some
            THEN [advance_pc |-> TRUE,
                  G |-> IF G.overflow_checks /\ add_overflows(c.acc, r.val.v)
                        THEN [r.G EXCEPT !.panic = "attempt to add with overflow"]
                        ELSE [r.G EXCEPT !.cpu[n].acc = wrapping_add(c.acc, r.val.v)]]
            ELSE [advance_pc |-> FALSE, G |-> r.G]
      [] insn.op = "SUB" ->
            IF r.val.some
            THEN [advance_pc |-> TRUE,
                  G |-> IF G.overflow_checks /\ sub_overflows(c.acc, r.val.v)
                        THEN [r.G EXCEPT !.panic = "attempt to subtract with overflow"]
                        ELSE [r.G EXCEPT !.cpu[n].acc = wrapping_sub(c.acc, r.val.v)]]
            ELSE [advance_pc |-> FALSE, G |-> r.G]
      [] insn.op = "NEG" ->
            [advance_pc |-> TRUE,
             G |-> IF G.overflow_checks /\ neg_overflows(c.acc)
                   THEN [G EXCEPT !.panic = "attempt to negate with overflow"]
                   ELSE [G EXCEPT !.cpu[n].acc = wrapping_neg(c.acc)]]
      [] insn.op = "J" ->
            IF cond_holds(insn.cond, c.acc)
            THEN [advance_pc |-> FALSE,
                  G |-> [G EXCEPT !.cpu[n].pc = label_line(G.exe[n], insn.dst)]]
            ELSE [advance_pc |-> TRUE, G |-> G]
      [] insn.op = "JRO" ->
            IF r.val.some
            THEN [advance_pc |-> TRUE,
                  G |-> IF G.overflow_checks /\ add_overflows(c.pc, r.val.v)
                        THEN [r.G EXCEPT !.panic = "attempt to add with overflow"]
                        ELSE [r.G EXCEPT !.cpu[n].pc = wrapping_add(c.pc, r.val.v)]]
            ELSE [advance_pc |-> FALSE, G |-> r.G]

\* The first arm without the change of mode: a faulty variant, against which
\* C28 is tested.
write_cycle_deposit_stays(n, port, W) == W

\* The first arm of Cpu::write_cycle: the pending write (port, val) is
\* taken, handed to the ports, and the node waits in WRITE(port).
write_cycle_deposit(n, port, W) ==
    IF W.panic # "" THEN W ELSE [W EXCEPT !.cpu[n].exec_state = WRITE(port)]

\* The second arm completing the write whatever write_finished returned: a
\* faulty variant, against which C25 is tested.
write_cycle_complete_unchecked(n, f) ==
    update_pc([f.G EXCEPT !.cpu[n].exec_state = EXEC], n, TRUE)

\* The second arm of Cpu::write_cycle, f being what write_finished returned.
write_cycle_complete(n, f) ==
    IF f.ret THEN update_pc([f.G EXCEPT !.cpu[n].exec_state = EXEC], n, TRUE)
    ELSE f.G

\* write_cycle that leaves the pending write in place when it deposits it: a
\* faulty variant, against which C27 is tested.
write_cycle_keeps_pending(G, n) ==
    IF G.cpu[n].pending_write.some
    THEN write_cycle_deposit(n, G.cpu[n].pending_write.port,
             CpuPorts_write_port(G, n, G.cpu[n].pending_write.port,
                                 G.cpu[n].pending_write.val))
    ELSE IF G.cpu[n].exec_state.m = "WRITE"
    THEN write_cycle_complete(n, CpuPorts_write_finished(G, n, G.cpu[n].exec_state.p))
    ELSE G

\* Cpu::write_cycle
write_cycle(G, n) ==
    IF G.cpu[n].pending_write.some
    THEN write_cycle_deposit(n, G.cpu[n].pending_write.port,
             CpuPorts_write_port([G EXCEPT !.cpu[n].pending_write = NoWrite], n,
                                 G.cpu[n].pending_write.port, G.cpu[n].pending_write.val))
    ELSE IF G.cpu[n].exec_state.m = "WRITE"
    THEN write_cycle_complete(n, CpuPorts_write_finished(G, n, G.cpu[n].exec_state.p))
    ELSE G

\* The end of execute with the commit fused into it: a faulty variant,
\* against which C4 is tested.
execute_end_fused(n, m) ==
    IF m.G.panic # "" THEN [ret |-> FALSE, G |-> m.G]
    ELSE [ret |-> TRUE, G |-> write_cycle(update_pc(m.G, n, m.advance_pc), n)]

\* The end of Cpu::execute, m being what the match returned: [ret, G]
execute_end(n, m) ==
    IF m.G.panic # "" THEN [ret |-> FALSE, G |-> m.G]
    ELSE [ret |-> TRUE, G |-> update_pc(m.G, n, m.advance_pc)]

\* execute without the early return in WRITE mode: a faulty variant, against
\* which C5 is tested.
execute_no_write_return(G, n) ==
    IF len(G.exe[n]) = 0 THEN [ret |-> FALSE, G |-> G]
    ELSE IF G.cpu[n].pending_write # NoWrite
    THEN [ret |-> FALSE, G |-> [G EXCEPT !.panic = "assertion failed: pending_write == None"]]
    ELSE execute_end(n, execute_insn(G, n, insn_at(G.exe[n], G.cpu[n].pc), G.cpu[n],
                                     get_operand(G, n, insn_at(G.exe[n], G.cpu[n].pc).a)))

\* Cpu::execute: [ret, G]
execute(G, n) ==
    IF len(G.exe[n]) = 0 THEN [ret |-> FALSE, G |-> G]
    ELSE IF G.cpu[n].pending_write # NoWrite
    THEN [ret |-> FALSE, G |-> [G EXCEPT !.panic = "assertion failed: pending_write == None"]]
    ELSE IF G.cpu[n].exec_state.m = "WRITE" THEN [ret |-> FALSE, G |-> G]
    ELSE execute_end(n, execute_insn(G, n, insn_at(G.exe[n], G.cpu[n].pc), G.cpu[n],
                                     get_operand(G, n, insn_at(G.exe[n], G.cpu[n].pc).a)))

\* Cpu::current_line
current_line(G, n) == srcline_at(G.exe[n], G.cpu[n].pc)

\* --------------------------------------------------------------- programs

NoLabels == [l \in {} |-> 0]

\* The Executable of a source text with one instruction on every line.
Program(insns, labels) ==
    Executable([i \in 1..Len(insns) |-> InstructionLine(insns[i], i - 1)], labels)

\* "MOV UP DOWN\nMOV DOWN ACC"
ProgRelay == Program(<<MOV(OpPort("Up"), OpPort("Down")), MOV(OpPort("Down"), ACC)>>, NoLabels)

\* "MOV ANY ACC\nMOV ACC UP"
ProgAnyEcho == Program(<<MOV(OpPort("Any"), ACC), MOV(ACC, OpPort("Up"))>>, NoLabels)

\* "ADD UP\nSUB UP\nJRO UP\nNEG\nSAV\nSWP"
ProgArith ==
    Program(<<ADD(OpPort("Up")), SUB(OpPort("Up")), JRO(OpPort("Up")), NEG, SAV, SWP>>,
            NoLabels)

\* "JRO 0\nSUB 2\nJLZ L\nJRO 5\nL: JRO -7"
ProgJumps ==
    Program(<<JRO(Lit(0)), SUB(Lit(2)), J("Lz", "L"), JRO(Lit(5)), JRO(Lit(-7))>>,
            "L" :> 4)

\* "MOV 1 DOWN\nMOV 2 DOWN\nMOV 3 DOWN"
ProgCount ==
    Program(<<MOV(Lit(1), OpPort("Down")), MOV(Lit(2), OpPort("Down")),
              MOV(Lit(3), OpPort("Down"))>>, NoLabels)

\* "MOV ANY ACC\nMOV ACC LAST"
ProgAnyLast == Program(<<MOV(OpPort("Any"), ACC), MOV(ACC, OpPort("Last"))>>, NoLabels)

\* "MOV 10 ANY\nMOV 20 ANY\nMOV 30 ANY\nMOV 40 ANY\nMOV 50 LAST"
ProgWriteAny ==
    Program(<<MOV(Lit(10), OpPort("Any")), MOV(Lit(20), OpPort("Any")),
              MOV(Lit(30), OpPort("Any")), MOV(Lit(40), OpPort("Any")),
              MOV(Lit(50), OpPort("Last"))>>, NoLabels)

\* "MOV 10 DOWN\nNOP"
ProgPortWrite == Program(<<MOV(Lit(10), OpPort("Down")), NOP>>, NoLabels)

\* "ADD UP"
ProgAdd == Program(<<ADD(OpPort("Up"))>>, NoLabels)

\* "", the Executable without instructions
ProgEmpty == Program(<<>>, NoLabels)

\* "MOV 10 ACC\nNOP"
ProgMov == Program(<<MOV(Lit(10), ACC), NOP>>, NoLabels)

\* "ADD 10\nADD -20\nSUB 10\nSUB -30"
ProgAddSub == Program(<<ADD(Lit(10)), ADD(Lit(-20)), SUB(Lit(10)), SUB(Lit(-30))>>, NoLabels)

\* "ADD 2147483647\nADD 1\nNEG\nSUB 1"
ProgWrap == Program(<<ADD(Lit(MaxI32)), ADD(Lit(1)), NEG, SUB(Lit(1))>>, NoLabels)

\* "JEZ A\nNOP\nA: SUB 1\nJLZ B\nNOP\nB: JNZ A"
ProgJ1 ==
    Program(<<J("Ez", "A"), NOP, SUB(Lit(1)), J("Lz", "B"), NOP, J("Nz", "A")>>,
            "A" :> 2 @@ "B" :> 5)

\* "A: JNZ A\nJLZ A\nJGZ A\nADD 1\nJEZ A"
ProgJ2 ==
    Program(<<J("Nz", "A"), J("Lz", "A"), J("Gz", "A"), ADD(Lit(1)), J("Ez", "A")>>,
            "A" :> 0)

\* "ADD 1\nJGZ B\nNOP\nB: JMP C\nC: JMP B"
ProgJ3 ==
    Program(<<ADD(Lit(1)), J("Gz", "B"), NOP, J("Unconditional", "C"),
              J("Unconditional", "B")>>,
            "B" :> 3 @@ "C" :> 4)

\* "MOV LAST ACC\nMOV ACC LAST"
ProgLast == Program(<<MOV(OpPort("Last"), ACC), MOV(ACC, OpPort("Last"))>>, NoLabels)

\* "MOV 1 DOWN\nMOV 2 RIGHT"
ProgTwoWay ==
    Program(<<MOV(Lit(1), OpPort("Down")), MOV(Lit(2), OpPort("Right"))>>, NoLabels)

\* "MOV 3 UP\nMOV UP ACC"
ProgWriteUp == Program(<<MOV(Lit(3), OpPort("Up")), MOV(OpPort("Up"), ACC)>>, NoLabels)

\* The programs loaded into nodes 1 and 2.
Grids ==
    << <<ProgRelay, ProgAnyEcho>>,
       <<ProgArith, ProgJumps>>,
       <<ProgCount, ProgAnyLast>>,
       <<ProgWriteAny, ProgPortWrite>>,
       <<ProgCount, ProgAdd>>,
       <<ProgAdd, ProgPortWrite>>,
       <<ProgEmpty, ProgMov>>,
       <<ProgAddSub, ProgWrap>>,
       <<ProgJ1, ProgJ2>>,
       <<ProgLast, ProgJ3>>,
       <<ProgCount, ProgLast>>,
       <<ProgTwoWay, ProgWriteUp>> >>

\* ------------------------------------------------------------ environment

\* The value an external producer offers on each external input of a node.
ExtValue(n, d) ==
    CASE d = "Up" -> 10
      [] d = "Down" -> 20
      [] d = "Left" -> 30
      [] d = "Right" -> 40

\* The node outputs an external consumer reads.
ExtOutputs == {<<n, d>> \in Nodes \X Cardinal : ~HasNeighbour(n, d)}

\* ------------------------------------------------------------------ state

VARIABLES
    grid,             \* which of Grids is loaded
    cpu,              \* node -> CpuState and CpuPorts.last
    out,              \* node -> CpuWritePorts, the node's outports
    inp,              \* external input -> CpuWritePorts of its producer
    panic,            \* "" or the message of the panic that ended the process
    overflow_checks,  \* whether the build panics on arithmetic overflow
    phase,            \* "exec" or "commit": the phase of the tick
    done,             \* the nodes already visited in this phase
    ticks,            \* completed ticks
    snap,             \* history: cpu, out, inp and panic when the phase began
    sent,             \* history: node -> the values its MOVs wrote towards its neighbour
    rcvd,             \* history: node -> the values it read from its neighbour
    any_done,         \* history: the nodes that had an ANY read or ANY write succeed
    tick0,            \* history: cpu, out and rcvd as the last tick left them
    cpu_port,         \* a CpuPort driven on its own, as port.rs's tests drive it
    wports,           \* a CpuWritePorts driven on its own
    call,             \* the last call made on cpu_port or wports, with its result
    text,             \* a source program handed to parse
    parsed            \* what parse made of text

vars ==
    <<grid, cpu, out, inp, panic, overflow_checks, phase, done, ticks, snap, sent, rcvd,
      any_done, tick0, cpu_port, wports, call, text, parsed>>

\* The variables of a running grid, and those of the objects driven on their own.
engine ==
    <<grid, cpu, out, inp, panic, overflow_checks, phase, done, ticks, snap, sent, rcvd,
      any_done, tick0>>

units == <<cpu_port, wports, call, text, parsed>>

hist == <<snap, sent, rcvd, any_done, tick0>>

\* node -> Executable, immutable once loaded
exe == [n \in Nodes |-> Grids[grid][n]]

\* The program state as the operators take it.
Grid ==
    [exe |-> exe, cpu |-> cpu, out |-> out, inp |-> inp, panic |-> panic,
     overflow_checks |-> overflow_checks, reads |-> <<>>, writes |-> <<>>]

\* The direction in which node n has its neighbour.
Facing(n) == CHOOSE d \in Cardinal : HasNeighbour(n, d)

Snapshot(G) == [cpu |-> G.cpu, out |-> G.out, inp |-> G.inp, panic |-> G.panic]

RECURSIVE Values(_)
Values(log) == IF log = <<>> THEN <<>> ELSE <<Head(log).v>> \o Values(Tail(log))

Install(G, n) ==
    /\ cpu' = G.cpu
    /\ out' = G.out
    /\ inp' = G.inp
    /\ panic' = G.panic
    /\ rcvd' = [rcvd EXCEPT ![n] = @ \o Values(SelectSeq(G.reads, LAMBDA r : r.d = Facing(n)))]
    /\ sent' = [sent EXCEPT ![n] = @ \o Values(SelectSeq(G.writes, LAMBDA w : w.p = Facing(n)))]
    /\ snap' = IF done \cup {n} = Nodes THEN Snapshot(G) ELSE snap
    /\ any_done' =
           IF \/ (/\ phase = "exec"
                  /\ G.reads # <<>>
                  /\ insn_at(exe[n], cpu[n].pc).a = OpPort("Any"))
              \/ (/\ phase = "commit"
                  /\ cpu[n].exec_state = WRITE("Any")
                  /\ G.cpu[n].exec_state = EXEC)
           THEN any_done \cup {n}
           ELSE any_done
    /\ tick0' = IF phase = "commit" /\ done \cup {n} = Nodes
                THEN [cpu |-> cpu', out |-> out', rcvd |-> rcvd']
                ELSE tick0
    /\ UNCHANGED <<grid, overflow_checks>>
    /\ UNCHANGED units

\* The driver's bookkeeping: node n has been visited in the current phase.
Visit(n) ==
    IF done \cup {n} = Nodes
    THEN /\ done' = {}
         /\ phase' = IF phase = "exec" THEN "commit" ELSE "exec"
         /\ ticks' = IF phase = "commit" THEN ticks + 1 ELSE ticks
    ELSE /\ done' = done \cup {n}
         /\ UNCHANGED <<phase, ticks>>

\* No call has been made yet on the ports driven on their own.
NoCall == [obj |-> "", fn |-> "", port |-> "", arg |-> 0, ret |-> FALSE, before |-> None]

\* No program has been handed to parse yet.
NotParsed == [kind |-> "none"]

PortsFresh ==
    /\ cpu_port = CpuPort_new
    /\ wports = CpuWritePorts_new
    /\ call = NoCall

ParseIdle ==
    /\ text = <<>>
    /\ parsed = NotParsed

EngineInit ==
    /\ grid \in 1..Len(Grids)
    /\ cpu = [n \in Nodes |-> Cpu_new]
    /\ out = [n \in Nodes |-> CpuWritePorts_new]
    /\ inp = [x \in ExtInputs |-> CpuWritePorts_new]
    /\ panic = ""
    /\ overflow_checks \in BOOLEAN
    /\ phase = "exec"
    /\ done = {}
    /\ ticks = 0
    /\ snap = [cpu |-> cpu, out |-> out, inp |-> inp, panic |-> panic]
    /\ sent = [n \in Nodes |-> <<>>]
    /\ rcvd = [n \in Nodes |-> <<>>]
    /\ any_done = {}
    /\ tick0 = [cpu |-> cpu, out |-> out, rcvd |-> rcvd]

Init ==
    /\ EngineInit
    /\ PortsFresh
    /\ ParseIdle

\* The driver calls execute() on node n.
Execute(n) ==
    /\ panic = ""
    /\ phase = "exec"
    /\ n \notin done
    /\ ticks < MaxTicks
    /\ Install(execute(Grid, n).G, n)
    /\ Visit(n)

\* The driver calls write_cycle() on node n.
WriteCycle(n) ==
    /\ panic = ""
    /\ phase = "commit"
    /\ n \notin done
    /\ Install(write_cycle(Grid, n), n)
    /\ Visit(n)

\* Between two ticks an external producer calls write_port on an input.
ExtWrite(n, d) ==
    /\ panic = ""
    /\ phase = "exec"
    /\ done = {}
    /\ ticks < MaxTicks
    /\ <<n, d>> \in ExtInputs
    /\ inp' = [inp EXCEPT ![<<n, d>>] = write_port(@, Opposite(d), ExtValue(n, d)).ports]
    /\ snap' = [snap EXCEPT !.inp = inp']
    /\ UNCHANGED <<grid, cpu, out, panic, overflow_checks, phase, done, ticks, sent, rcvd,
                   any_done, tick0>>
    /\ UNCHANGED units

\* Between two phases an external consumer reads an output of node n.
ExtRead(n, d) ==
    /\ panic = ""
    /\ done = {}
    /\ ticks < MaxTicks
    /\ <<n, d>> \in ExtOutputs
    /\ out' = [out EXCEPT ![n] = read(@, d).ports]
    /\ snap' = [snap EXCEPT !.out = out']
    /\ UNCHANGED <<grid, cpu, inp, panic, overflow_checks, phase, done, ticks, sent, rcvd,
                   any_done, tick0>>
    /\ UNCHANGED units

Next ==
    \/ \E n \in Nodes : Execute(n)
    \/ \E n \in Nodes : WriteCycle(n)
    \/ \E n \in Nodes, d \in Cardinal : ExtWrite(n, d)
    \/ \E n \in Nodes, d \in Cardinal : ExtRead(n, d)

Spec == Init /\ [][Next]_vars

\* ------------------------------------------- the port objects on their own

\* The values written to the ports are 1..MaxPortValue.
MaxPortValue == 2

PortValues == 1..MaxPortValue

\* No grid runs while an object is driven on its own.
EngineIdle ==
    /\ EngineInit
    /\ grid = 1
    /\ overflow_checks = FALSE

InitPort ==
    /\ EngineIdle
    /\ PortsFresh
    /\ ParseIdle

\* port.write(v) on the CpuPort
CallCpuPortWrite(v) ==
    /\ cpu_port' = CpuPort_write(cpu_port, v).port
    /\ call' = [obj |-> "CpuPort", fn |-> "write", port |-> "", arg |-> v,
                ret |-> CpuPort_write(cpu_port, v).ret, before |-> cpu_port]
    /\ UNCHANGED <<wports, text, parsed>>
    /\ UNCHANGED engine

\* port.read() on the CpuPort
CallCpuPortRead ==
    /\ cpu_port' = CpuPort_read(cpu_port).port
    /\ call' = [obj |-> "CpuPort", fn |-> "read", port |-> "", arg |-> 0,
                ret |-> CpuPort_read(cpu_port).ret, before |-> cpu_port]
    /\ UNCHANGED <<wports, text, parsed>>
    /\ UNCHANGED engine

\* ports.write_port(p, v) on the CpuWritePorts
CallWritePort(p, v) ==
    /\ wports' = write_port(wports, p, v).ports
    /\ call' = [obj |-> "CpuWritePorts", fn |-> "write_port", port |-> p, arg |-> v,
                ret |-> write_port(wports, p, v).ret, before |-> wports]
    /\ UNCHANGED <<cpu_port, text, parsed>>
    /\ UNCHANGED engine

\* ports.get_read_port(p).read() on the CpuWritePorts
CallReaderRead(p) ==
    /\ wports' = read(wports, p).ports
    /\ call' = [obj |-> "CpuWritePorts", fn |-> "read", port |-> p, arg |-> 0,
                ret |-> read(wports, p).ret, before |-> wports]
    /\ UNCHANGED <<cpu_port, text, parsed>>
    /\ UNCHANGED engine

NextPort ==
    \/ \E v \in PortValues : CallCpuPortWrite(v)
    \/ CallCpuPortRead
    \/ \E p \in Cardinal, v \in PortValues : CallWritePort(p, v)
    \/ \E p \in Cardinal : CallReaderRead(p)

SpecPort == InitPort /\ [][NextPort]_vars

\* ------------------------------------------------------------------ parse

\* Result<T, &'static str>
Ok(v) == [ok |-> TRUE, v |-> v]

Err(e) == [ok |-> FALSE, err |-> e]

BAD_OPCODE_ERR == "Bad opcode for # of arguments"

NUM_ARGS_ERR == "Wrong number of arguments"

LIT_DST_ERR == "Literal not allowed as dst operand"

\* str::to_ascii_uppercase, on the words the source texts are written with
to_ascii_uppercase(w) ==
    CASE w = "top" -> "TOP"
      [] w = "end" -> "END"
      [] w = "add" -> "ADD"
      [] w = "jez" -> "JEZ"
      [] OTHER -> w

\* i32::from_str, on the words the source texts are written with
i32_from_str(w) ==
    CASE w = "1" -> Ok(1)
      [] w = "10" -> Ok(10)
      [] OTHER -> Err("invalid digit found in string")

\* Port::from_str
Port_from_str(w) ==
    CASE w = "UP" -> Ok("Up")
      [] w = "DOWN" -> Ok("Down")
      [] w = "LEFT" -> Ok("Left")
      [] w = "RIGHT" -> Ok("Right")
      [] OTHER -> Err("bad port")

\* Operand::from_str
Operand_from_str(w) ==
    IF w = "ACC" THEN Ok(ACC)
    ELSE IF i32_from_str(w).ok THEN Ok(Lit(i32_from_str(w).v))
    ELSE IF Port_from_str(w).ok THEN Ok(OpPort(Port_from_str(w).v))
    ELSE Err("Invalid operand")

\* The MOV arm without the rejection of a literal destination: a faulty
\* variant, against which C23 is tested.
Instruction_mov_lit_dst(s, d) ==
    IF ~s.ok THEN s
    ELSE IF ~d.ok THEN d
    ELSE Ok(MOV(s.v, d.v))

\* The MOV arm of Instruction::from_str, on its two parsed operands.
Instruction_mov(s, d) ==
    IF ~s.ok THEN s
    ELSE IF ~d.ok THEN d
    ELSE IF d.v.k = "Lit" THEN Err(LIT_DST_ERR)
    ELSE Ok(MOV(s.v, d.v))

\* The one-operand arms of Instruction::from_str, on the parsed operand.
Instruction_operand(opcode, o) ==
    IF ~o.ok THEN o
    ELSE CASE opcode = "ADD" -> Ok(ADD(o.v))
           [] opcode = "SUB" -> Ok(SUB(o.v))
           [] opcode = "JRO" -> Ok(JRO(o.v))

\* Instruction::from_str on the words of the instruction (the text split at
\* spaces, the empty pieces dropped).
Instruction_from_str(words) ==
    CASE Len(words) = 1 ->
           CASE words[1] = "NOP" -> Ok(NOP)
             [] words[1] = "SWP" -> Ok(SWP)
             [] words[1] = "SAV" -> Ok(SAV)
             [] words[1] = "NEG" -> Ok(NEG)
             [] OTHER -> Err(BAD_OPCODE_ERR)
      [] Len(words) = 2 ->
           CASE words[1] \in {"ADD", "SUB", "JRO"} ->
                    Instruction_operand(words[1], Operand_from_str(words[2]))
             [] words[1] = "JMP" -> Ok(J("Unconditional", words[2]))
             [] words[1] = "JEZ" -> Ok(J("Ez", words[2]))
             [] words[1] = "JNZ" -> Ok(J("Nz", words[2]))
             [] words[1] = "JGZ" -> Ok(J("Gz", words[2]))
             [] words[1] = "JLZ" -> Ok(J("Lz", words[2]))
             [] OTHER -> Err(BAD_OPCODE_ERR)
      [] Len(words) = 3 ->
           IF words[1] = "MOV"
           THEN Instruction_mov(Operand_from_str(words[2]), Operand_from_str(words[3]))
           ELSE Err(BAD_OPCODE_ERR)
      [] OTHER -> Err(NUM_ARGS_ERR)

\* A source line as LINE_RE captures it: the token in front of the ':' ("" when
\* the label group does not match) and the words of the instruction group
\* (<<>> when it does not match).
SourceLine(label, words) == [label |-> label, words |-> words]

\* Option<Label> and Option<Instruction>
NoLabel == [some |-> FALSE, v |-> ""]

NoInsn == [some |-> FALSE, v |-> NOP]

\* struct Line { label, insn }
Line(label, insn) == [label |-> label, insn |-> insn]

\* Line::from_str: the line is folded to upper case, then captured.
Line_from_str(l) ==
    LET label == IF l.label = "" THEN NoLabel ELSE Some(to_ascii_uppercase(l.label))
        insn == IF l.words = <<>> THEN Ok(NoInsn)
                ELSE Instruction_from_str(
                         [i \in 1..Len(l.words) |-> to_ascii_uppercase(l.words[i])])
    IN  IF insn.ok
        THEN Ok(Line(label, IF l.words = <<>> THEN NoInsn ELSE Some(insn.v)))
        ELSE insn

\* parse_program: the Lines of the text, or the error of its first bad line.
\* p is the text as p.lines() yields it.
RECURSIVE parse_program(_)
parse_program(p) ==
    IF p = <<>> THEN Ok(<<>>)
    ELSE IF ~Line_from_str(Head(p)).ok THEN Line_from_str(Head(p))
    ELSE IF ~parse_program(Tail(p)).ok THEN parse_program(Tail(p))
    ELSE Ok(<<Line_from_str(Head(p)).v>> \o parse_program(Tail(p)).v)

\* What a call of parse comes to: Ok(Executable), Err(message), or a panic.
ParseOk(e) == [kind |-> "Ok", exe |-> e]

ParseErr(e) == [kind |-> "Err", err |-> e]

ParsePanic(m) == [kind |-> "panic", msg |-> m]

validlines(lines) == Cardinality({i \in 1..Len(lines) : lines[i].insn.some})

numlabels(lines) == Cardinality({i \in 1..Len(lines) : lines[i].label.some})

\* The instructions numbered by their place in the instruction list instead
\* of their source line: a faulty variant, against which C24 is tested.
push_lines_insn_index(lines, i) ==
    [k \in 1..Len(SelectSeq(lines, LAMBDA l : l.insn.some)) |->
        InstructionLine(SelectSeq(lines, LAMBDA l : l.insn.some)[k].insn.v, k - 1)]

\* executable.lines after the loop over the source lines, from line i on.
RECURSIVE push_lines(_, _)
push_lines(lines, i) ==
    IF i >= Len(lines) THEN <<>>
    ELSE (IF lines[i + 1].insn.some
          THEN <<InstructionLine(lines[i + 1].insn.v, i)>>
          ELSE <<>>) \o push_lines(lines, i + 1)

\* executable.labels after the loop: a later insert of a label replaces the
\* earlier one.
insert_labels(lines) ==
    [label \in {lines[i].label.v : i \in {j \in 1..Len(lines) : lines[j].label.some}} |->
        CHOOSE i \in 0..(Len(lines) - 1) :
            /\ lines[i + 1].label = Some(label)
            /\ \A j \in (i + 1)..(Len(lines) - 1) : lines[j + 1].label # Some(label)]

\* A resolution that takes the first instruction strictly after the label's
\* line: a faulty variant, against which C19 is tested.
resolve_strictly_after(elines, lineno) ==
    IF \E k \in 1..Len(elines) : elines[k].srcline > lineno
    THEN (CHOOSE k \in 1..Len(elines) :
              /\ elines[k].srcline > lineno
              /\ \A m \in 1..(k - 1) : ~(elines[m].srcline > lineno)) - 1
    ELSE Len(elines)

\* The inner loop of the resolution: the index i it ends with, the number of
\* instructions when no instruction is at or after line lineno.
resolve(elines, lineno) ==
    IF \E k \in 1..Len(elines) : elines[k].srcline >= lineno
    THEN (CHOOSE k \in 1..Len(elines) :
              /\ elines[k].srcline >= lineno
              /\ \A m \in 1..(k - 1) : ~(elines[m].srcline >= lineno)) - 1
    ELSE Len(elines)

\* The check that every jump's label exists, and the return.
parse_jumps(e) ==
    IF \E k \in 1..Len(e.lines) :
           e.lines[k].insn.op = "J" /\ e.lines[k].insn.dst \notin DOMAIN e.labels
    THEN ParseErr("Jump to undefined label")
    ELSE ParseOk(e)

\* parse from the two assertions after the loop on.
parse_resolve(elines, labels, lines) ==
    IF Len(elines) # validlines(lines) \/ Cardinality(DOMAIN labels) # numlabels(lines)
    THEN ParsePanic("assertion failed: (left == right)")
    ELSE IF \E label \in DOMAIN labels : ~(resolve(elines, labels[label]) < Len(elines))
    THEN ParsePanic("assertion failed: i < executable.lines.len() as u32")
    ELSE parse_jumps(Executable(elines,
                                [label \in DOMAIN labels |-> resolve(elines, labels[label])]))

\* parse
parse(p) ==
    IF ~parse_program(p).ok THEN ParseErr(parse_program(p).err)
    ELSE parse_resolve(push_lines(parse_program(p).v, 0),
                       insert_labels(parse_program(p).v),
                       parse_program(p).v)

\* The source lines the texts are made of.
SourceLines ==
    { SourceLine("", <<>>),                       \* ""
      SourceLine("TOP", <<>>),                    \* "TOP:"
      SourceLine("TOP", <<"NOP">>),               \* "TOP:NOP"
      SourceLine("", <<"NOP">>),                  \* "NOP"
      SourceLine("", <<"JMP", "TOP">>),           \* "JMP TOP"
      SourceLine("top", <<"add", "1">>),          \* "top: add 1"
      SourceLine("", <<"jez", "end">>),           \* "jez end"
      SourceLine("END", <<>>),                    \* "END:"
      SourceLine("", <<"MOV", "UP", "10">>),      \* "MOV UP 10"
      SourceLine("", <<"MOV", "10", "ACC">>),     \* "MOV 10 ACC"
      SourceLine("", <<"SUB", "B", "C">>),        \* "SUB B C"
      SourceLine("", <<"A", "B", "C", "D">>) }    \* "A B C D"

\* The texts have at most MaxLines lines.
MaxLines == 3

Texts == UNION {[1..n -> SourceLines] : n \in 0..MaxLines}

InitParse ==
    /\ EngineIdle
    /\ PortsFresh
    /\ text \in Texts
    /\ parsed = NotParsed

\* parse(text) is called.
Parse ==
    /\ parsed = NotParsed
    /\ parsed' = parse(text)
    /\ UNCHANGED <<cpu_port, wports, call, text>>
    /\ UNCHANGED engine

NextParse == Parse

SpecParse == InitParse /\ [][NextParse]_vars

\* ------------------------------------------------------- reading a step

\* Node n is the node the driver visits in this step: by execute() in the
\* exec phase, by write_cycle() in the commit phase.
Visits(n) ==
    /\ n \notin done
    /\ IF done \cup {n} = Nodes THEN phase' # phase ELSE done' = done \cup {n}

ExecuteStep(n) == phase = "exec" /\ Visits(n)

WriteCycleStep(n) == phase = "commit" /\ Visits(n)

Directions == <<"Up", "Down", "Left", "Right">>

\* The slot behind the read handle of node n for direction d.
SourceSlot(n, d) ==
    IF HasNeighbour(n, d) THEN get_port(out[Neighbour(n, d)], Opposite(d))
    ELSE IF <<n, d>> \in ExtInputs THEN get_port(inp[<<n, d>>], Opposite(d))
    ELSE None

AllEmpty(w) == \A d \in Cardinal : get_port(w, d) = None

IsPrefix(s, t) == Len(s) <= Len(t) /\ \A i \in 1..Len(s) : s[i] = t[i]

\* The instruction node n is at.
CurrentInsn(n) == insn_at(exe[n], cpu[n].pc)

\* Node n is about to perform the instruction at pc with its source on port p.
ReadsPort(n) ==
    /\ len(exe[n]) >= 1
    /\ cpu[n].exec_state.m # "WRITE"
    /\ CurrentInsn(n).op \in {"MOV", "ADD", "SUB", "JRO"}
    /\ CurrentInsn(n).a.k = "Port"

\* ----------------------------------------------------------------- claims

\* C1: with at least one instruction loaded, pc is an index into the
\* instruction list in every state: after a normal advance, a taken jump,
\* the advance on write completion, and JRO with any offset.
C1_PcInRange ==
    \A n \in Nodes : len(exe[n]) >= 1 => (0 <= cpu[n].pc /\ cpu[n].pc < len(exe[n]))

\* Node 2 has taken JLZ, and JRO -7 from index 4 has wrapped to index 3.
C1_Witness ==
    /\ exe[2] = ProgJumps
    /\ cpu[2].pc = 3
    /\ cpu[2].acc = -2
    /\ ticks = 4

\* The program state when the current phase began.
FromSnap ==
    [exe |-> exe, cpu |-> snap.cpu, out |-> snap.out, inp |-> snap.inp,
     panic |-> snap.panic, overflow_checks |-> overflow_checks,
     reads |-> <<>>, writes |-> <<>>]

\* Phase ph run from G over the nodes of S in ascending order, up to a panic.
RECURSIVE RunPhase(_, _, _)
RunPhase(G, ph, S) ==
    IF S = {} \/ G.panic # "" THEN G
    ELSE LET n == CHOOSE x \in S : \A y \in S : x <= y
         IN RunPhase(IF ph = "exec" THEN execute(G, n).G ELSE write_cycle(G, n),
                     ph, S \ {n})

\* C2: whatever the order in which the nodes are visited inside the execute
\* phase and inside the commit phase, every node and every port slot is at
\* the end of the phase, and so at the end of the tick, as the visit in
\* ascending order leaves them, a node with an outstanding write to ANY
\* included.
C2_OrderIndependent ==
    [][phase' # phase =>
          Snapshot(RunPhase(FromSnap, phase, Nodes)) =
              [cpu |-> cpu', out |-> out', inp |-> inp', panic |-> panic']]_vars

\* C3: on the slot two adjacent nodes share, the values the consumer has
\* obtained are at every moment a prefix of the values the producer's MOVs
\* wrote, in the order written: none duplicated, none reordered. None is
\* lost: the producer is at most one value ahead, and that value is in the
\* slot.
C3_NoLossNoDup ==
    \A a \in Nodes :
        /\ IsPrefix(rcvd[Neighbour(a, Facing(a))], sent[a])
        /\ Len(sent[a]) <= Len(rcvd[Neighbour(a, Facing(a))]) + 1
        /\ Len(sent[a]) = Len(rcvd[Neighbour(a, Facing(a))]) + 1 =>
               get_port(out[a], Facing(a)) = Some(sent[a][Len(sent[a])])

\* Node 1 has written 1, 2, 3 downwards and node 2 has read 1 and 2.
C3_Witness ==
    /\ sent[1] = <<1, 2, 3>>
    /\ rcvd[2] = <<1, 2>>
    /\ cpu[2].acc = 3

\* C4: while a node holds a pending write, between its execute and its
\* write_cycle, a read of any of its write slots returns empty; a slot
\* becomes full only in the node's write_cycle, with the pending value; and
\* a neighbour obtains a value only in an execute phase, and only one that
\* was in the slot when that phase began.
C4_VisibleAfterCommit ==
    /\ [](\A n \in Nodes : cpu[n].pending_write.some =>
               \A d \in Cardinal : read(out[n], d).ret = None)
    /\ [][\A n \in Nodes :
             /\ \A d \in Cardinal :
                    (get_port(out[n], d) = None /\ get_port(out'[n], d) # None) =>
                        /\ WriteCycleStep(n)
                        /\ cpu[n].pending_write.some
                        /\ get_port(out'[n], d) = Some(cpu[n].pending_write.val)
             /\ rcvd'[n] # rcvd[n] =>
                    /\ ExecuteStep(n)
                    /\ get_port(snap.out[Neighbour(n, Facing(n))],
                                Opposite(Facing(n))) # None]_vars

\* Node 1 has executed MOV UP DOWN with 10 and not yet committed it.
C4_Witness ==
    /\ cpu[1].pending_write = PendingWrite("Down", 10)
    /\ phase = "commit"
    /\ done = {}
    /\ AllEmpty(out[1])

\* C5: the write_cycle that commits a MOV of v to a cardinal port p leaves v
\* in slot p, the mode WRITE(p) and pc at the MOV. While the slot still
\* holds the value, a visit of the node, by execute or by write_cycle,
\* leaves pc, acc, bak, the mode and the node's slots as they are, and the
\* execute reads no input port.
C5_BlockedWrite ==
    [][\A n \in Nodes :
          /\ (/\ WriteCycleStep(n)
              /\ cpu[n].pending_write.some
              /\ cpu[n].pending_write.port \in Cardinal) =>
                 /\ get_port(out'[n], cpu[n].pending_write.port) =
                        Some(cpu[n].pending_write.val)
                 /\ cpu'[n] = [cpu[n] EXCEPT !.pending_write = NoWrite,
                                              !.exec_state = WRITE(cpu[n].pending_write.port)]
                 /\ CurrentInsn(n).op = "MOV"
                 /\ CurrentInsn(n).b = OpPort(cpu[n].pending_write.port)
          /\ (/\ Visits(n)
              /\ cpu[n].exec_state.m = "WRITE"
              /\ cpu[n].exec_state.p \in Cardinal
              /\ get_port(out[n], cpu[n].exec_state.p) # None) =>
                 /\ cpu'[n] = cpu[n]
                 /\ out'[n] = out[n]
                 /\ phase = "exec" => (inp' = inp /\ out' = out /\ rcvd' = rcvd)]_vars

\* Node 2 has committed MOV 10 DOWN, and two further ticks have passed
\* without a consumer.
C5_Witness ==
    /\ exe[2] = ProgPortWrite
    /\ cpu[2].exec_state = WRITE("Down")
    /\ cpu[2].pc = 0
    /\ get_port(out[2], "Down") = Some(10)
    /\ ticks = 3

\* C6: the mode of a node in WRITE(p) changes only in a write_cycle of the
\* node that finds all its write slots empty, so neither in the step in
\* which the consumer reads nor in an execute; and a write_cycle that finds
\* them empty sets the mode to EXEC and advances pc by 1 modulo the program
\* length, leaving acc and bak.
C6_WriteCompletion ==
    [][\A n \in Nodes :
          cpu[n].exec_state.m = "WRITE" =>
              /\ cpu'[n].exec_state # cpu[n].exec_state =>
                     (WriteCycleStep(n) /\ AllEmpty(out[n]))
              /\ (WriteCycleStep(n) /\ AllEmpty(out[n])) =>
                     cpu'[n] = [cpu[n] EXCEPT !.exec_state = EXEC,
                                              !.pc = (@ + 1) % len(exe[n])]]_vars

\* The consumer below node 2 has read the 10 of MOV 10 DOWN, and the next
\* write_cycle has moved node 2 on to the NOP.
C6_Witness ==
    /\ exe[2] = ProgPortWrite
    /\ cpu[2].exec_state = EXEC
    /\ cpu[2].pc = 1
    /\ AllEmpty(out[2])
    /\ ticks = 2

\* The directions from which the source port of the instruction node n is
\* at can be served now.
SourceCandidates(n) ==
    {d \in Cardinal :
        /\ SourceSlot(n, d) # None
        /\ \/ CurrentInsn(n).a.p = "Any"
           \/ d = (IF CurrentInsn(n).a.p = "Last" THEN cpu[n].last ELSE CurrentInsn(n).a.p)}

\* In this step the value behind the read handle of node n for direction d
\* is taken, and nothing else is taken from any producer.
ConsumesOnly(n, d) ==
    /\ out'[n] = out[n]
    /\ IF HasNeighbour(n, d)
       THEN /\ AllEmpty(out'[Neighbour(n, d)])
            /\ inp' = inp
            /\ rcvd'[n] = Append(rcvd[n], SourceSlot(n, d).v)
       ELSE /\ AllEmpty(inp'[<<n, d>>])
            /\ \A x \in ExtInputs \ {<<n, d>>} : inp'[x] = inp[x]
            /\ out' = out
            /\ rcvd'[n] = rcvd[n]

\* In this step node n completes the instruction at pc with source value v.
CompletesWith(n, v) ==
    /\ cpu'[n].exec_state.m # "READ"
    /\ cpu'[n].bak = cpu[n].bak
    /\ CASE CurrentInsn(n).op = "MOV" /\ CurrentInsn(n).b.k = "ACC" ->
               /\ cpu'[n].acc = v
               /\ cpu'[n].pc = (cpu[n].pc + 1) % len(exe[n])
               /\ cpu'[n].pending_write = NoWrite
         [] CurrentInsn(n).op = "MOV" /\ CurrentInsn(n).b.k = "Port" ->
               /\ cpu'[n].acc = cpu[n].acc
               /\ cpu'[n].pc = cpu[n].pc
               /\ cpu'[n].pending_write = PendingWrite(CurrentInsn(n).b.p, v)
         [] CurrentInsn(n).op = "ADD" ->
               /\ cpu'[n].acc = cpu[n].acc + v
               /\ cpu'[n].pc = (cpu[n].pc + 1) % len(exe[n])
               /\ cpu'[n].pending_write = NoWrite
         [] CurrentInsn(n).op = "SUB" ->
               /\ cpu'[n].acc = cpu[n].acc - v
               /\ cpu'[n].pc = (cpu[n].pc + 1) % len(exe[n])
               /\ cpu'[n].pending_write = NoWrite
         [] CurrentInsn(n).op = "JRO" ->
               /\ cpu'[n].acc = cpu[n].acc
               /\ cpu'[n].pc = (cpu[n].pc + v + 1) % len(exe[n])
               /\ cpu'[n].pending_write = NoWrite

\* C7: an execute of MOV, ADD, SUB or JRO with its source on port p, when
\* no value is available, sets the mode to READ(p) and changes nothing else
\* of the node and nothing in any slot, so that the instruction is tried
\* again; when a value is available it takes exactly one value, completes
\* the instruction with that value, and the mode is not READ.
C7_BlockingRead ==
    [][\A n \in Nodes :
          (ExecuteStep(n) /\ ReadsPort(n)) =>
              IF SourceCandidates(n) = {}
              THEN /\ cpu'[n] = [cpu[n] EXCEPT !.exec_state = READ(CurrentInsn(n).a.p)]
                   /\ out' = out
                   /\ inp' = inp
                   /\ rcvd' = rcvd
              ELSE \E d \in SourceCandidates(n) :
                      /\ ConsumesOnly(n, d)
                      /\ CompletesWith(n, SourceSlot(n, d).v)]_vars

\* Node 1 found UP empty in the first tick, stayed at MOV UP DOWN in
\* READ(UP), and has now completed it with the 10 that arrived.
C7_Witness ==
    /\ exe[1] = ProgRelay
    /\ cpu[1].pending_write = PendingWrite("Down", 10)
    /\ cpu[1].exec_state = EXEC
    /\ cpu[1].pc = 0
    /\ ticks = 1

\* C8: the write_cycle that commits a MOV of v to ANY ends without a panic
\* and leaves v readable on each of the node's four write slots, and a read
\* on any one of them returns v and leaves all four empty.
C8_WriteAny ==
    [][\A n \in Nodes :
          (/\ WriteCycleStep(n)
           /\ cpu[n].pending_write.some
           /\ cpu[n].pending_write.port = "Any") =>
              /\ panic' = ""
              /\ \A d \in Cardinal :
                     /\ read(out'[n], d).ret = Some(cpu[n].pending_write.val)
                     /\ AllEmpty(read(out'[n], d).ports)]_vars

\* C9: the node that runs MOV 10 ANY, MOV 20 ANY, MOV 30 ANY, MOV 40 ANY,
\* MOV 50 LAST commits its writes to ANY without a panic, and once it has
\* committed the MOV to LAST the 50 is in the RIGHT slot and the other three
\* slots are empty.
C9_LastAfterAnyWrites ==
    \A n \in Nodes :
        exe[n] = ProgWriteAny =>
            /\ panic # "Invalid port"
            /\ cpu[n].exec_state = WRITE("Last") =>
                   \A d \in Cardinal :
                       get_port(out[n], d) \in
                           (IF d = "Right" THEN {None, Some(50)} ELSE {None})

\* The first direction, in the order UP, DOWN, LEFT, RIGHT, whose slot
\* towards node n is full.
FirstFull(n) ==
    Directions[CHOOSE i \in 1..Len(Directions) :
                   /\ SourceSlot(n, Directions[i]) # None
                   /\ \A j \in 1..(i - 1) : SourceSlot(n, Directions[j]) = None]

\* C10: an execute whose instruction reads from ANY takes the value of the
\* first full slot in the order UP, DOWN, LEFT, RIGHT, completes the
\* instruction with it, takes nothing from any other producer and sets last
\* to that direction; when no slot is full nothing is taken, last stays,
\* and the node waits in READ(ANY).
C10_ReadAny ==
    [][\A n \in Nodes :
          (ExecuteStep(n) /\ ReadsPort(n) /\ CurrentInsn(n).a.p = "Any") =>
              IF \A d \in Cardinal : SourceSlot(n, d) = None
              THEN /\ cpu'[n] = [cpu[n] EXCEPT !.exec_state = READ("Any")]
                   /\ out' = out
                   /\ inp' = inp
              ELSE /\ cpu'[n].last = FirstFull(n)
                   /\ ConsumesOnly(n, FirstFull(n))
                   /\ CompletesWith(n, SourceSlot(n, FirstFull(n)).v)]_vars

\* Node 2 found UP empty and DOWN and LEFT full: it has taken the 20 from
\* DOWN, and the 30 is still in the slot on its LEFT.
C10_Witness ==
    /\ exe[2] = ProgAnyEcho
    /\ phase = "commit"
    /\ ticks = 0
    /\ cpu[2].acc = 20
    /\ cpu[2].last = "Down"
    /\ cpu[2].pc = 1
    /\ SourceSlot(2, "Down") = None
    /\ SourceSlot(2, "Left") = Some(30)

\* C11: a call of execute that returns, returns false exactly when the
\* Executable is empty; with instructions loaded it returns true in every
\* mode, WRITE included.
C11_ExecuteReturn ==
    [][\A n \in Nodes :
          (ExecuteStep(n) /\ panic' = "") =>
              (execute(Grid, n).ret = FALSE <=> len(exe[n]) = 0)]_vars

\* No instruction of e has a port as operand.
NoPortOperand(e) ==
    \A i \in 1..Len(e.lines) :
        e.lines[i].insn.a.k # "Port" /\ e.lines[i].insn.b.k # "Port"

\* The program state with node n as it is and everything around it as at
\* reset: the slots empty, the other node untouched.
Isolated(n) ==
    [Grid EXCEPT !.cpu = [m \in Nodes |-> IF m = n THEN cpu[n] ELSE Cpu_new],
                 !.out = [m \in Nodes |-> CpuWritePorts_new],
                 !.inp = [x \in ExtInputs |-> CpuWritePorts_new]]

\* C12: a node whose program has no port operand is in EXEC with no write
\* pending in every state; each of its executes performs an instruction
\* (it returns true and does not abort), and the state it leaves is the one
\* the node's own state determines, whatever the slots and the other node
\* hold.
C12_NoPortDeterministic ==
    /\ [](\A n \in Nodes :
              NoPortOperand(exe[n]) =>
                  (cpu[n].exec_state = EXEC /\ cpu[n].pending_write = NoWrite))
    /\ [][\A n \in Nodes :
             (ExecuteStep(n) /\ NoPortOperand(exe[n]) /\ len(exe[n]) >= 1) =>
                 /\ panic' = ""
                 /\ execute(Grid, n).ret
                 /\ cpu'[n] = execute(Isolated(n), n).G.cpu[n]]_vars

\* The values the operand of the instruction node n is at can take now:
\* none when it is a port and no value is available.
OperandValues(n) ==
    CASE CurrentInsn(n).a.k = "Lit" -> {CurrentInsn(n).a.i}
      [] CurrentInsn(n).a.k = "ACC" -> {cpu[n].acc}
      [] CurrentInsn(n).a.k = "Port" -> {SourceSlot(n, d).v : d \in SourceCandidates(n)}

\* Node n is about to perform the instruction at pc, of one of the kinds ops.
Performs(n, ops) ==
    /\ len(exe[n]) >= 1
    /\ cpu[n].exec_state.m # "WRITE"
    /\ CurrentInsn(n).op \in ops

\* C13: an execute of ADD x, SUB x or NEG whose operand is available does
\* not abort, sets acc to acc + x, acc - x or -acc in 32-bit two's
\* complement with wrap-around, leaves bak, and advances pc by 1 modulo the
\* program length.
C13_WrappingArithmetic ==
    [][\A n \in Nodes :
          (/\ ExecuteStep(n)
           /\ Performs(n, {"ADD", "SUB", "NEG"})
           /\ OperandValues(n) # {}) =>
              /\ panic' = ""
              /\ cpu'[n].bak = cpu[n].bak
              /\ cpu'[n].pc = (cpu[n].pc + 1) % len(exe[n])
              /\ \E x \in OperandValues(n) :
                     cpu'[n].acc =
                         CASE CurrentInsn(n).op = "ADD" -> wrapping_add(cpu[n].acc, x)
                           [] CurrentInsn(n).op = "SUB" -> wrapping_sub(cpu[n].acc, x)
                           [] CurrentInsn(n).op = "NEG" -> wrapping_neg(cpu[n].acc)]_vars

\* C14: an execute of JRO whose offset k is available sets pc to pc + k
\* reduced modulo the program length into [0, len), without a further
\* advance, and leaves acc and bak: JRO 0 stays on the JRO, JRO 1 goes to
\* the next instruction.
C14_JroNoAdvance ==
    [][\A n \in Nodes :
          (/\ ExecuteStep(n)
           /\ Performs(n, {"JRO"})
           /\ OperandValues(n) # {}) =>
              /\ panic' = ""
              /\ cpu'[n].acc = cpu[n].acc
              /\ cpu'[n].bak = cpu[n].bak
              /\ \E k \in OperandValues(n) :
                     cpu'[n].pc = (cpu[n].pc + k) % len(exe[n])]_vars

\* C15: an execute of a J instruction leaves acc and bak; when its
\* condition holds on acc (Unconditional always, Ez acc = 0, Nz acc # 0,
\* Gz acc > 0, Lz acc < 0) pc becomes the index bound to the label, and
\* otherwise pc advances by 1 modulo the program length.
C15_ConditionalJump ==
    [][\A n \in Nodes :
          (ExecuteStep(n) /\ Performs(n, {"J"})) =>
              /\ panic' = ""
              /\ cpu'[n].acc = cpu[n].acc
              /\ cpu'[n].bak = cpu[n].bak
              /\ cpu'[n].pc =
                     IF \/ CurrentInsn(n).cond = "Unconditional"
                        \/ CurrentInsn(n).cond = "Ez" /\ cpu[n].acc = 0
                        \/ CurrentInsn(n).cond = "Nz" /\ cpu[n].acc # 0
                        \/ CurrentInsn(n).cond = "Gz" /\ cpu[n].acc > 0
                        \/ CurrentInsn(n).cond = "Lz" /\ cpu[n].acc < 0
                     THEN exe[n].labels[CurrentInsn(n).dst]
                     ELSE (cpu[n].pc + 1) % len(exe[n])]_vars

\* Node 1 has taken JEZ, JLZ and JNZ; node 2 has passed JNZ, JLZ and JGZ
\* with acc = 0 and stands on JEZ with acc = 1.
C15_Witness ==
    /\ exe[1] = ProgJ1
    /\ cpu[1].pc = 2
    /\ cpu[1].acc = -1
    /\ exe[2] = ProgJ2
    /\ cpu[2].pc = 4
    /\ cpu[2].acc = 1
    /\ ticks = 4

\* C16: an execute of a MOV to ACC whose source is available stores the
\* value in acc and advances pc by 1 modulo the program length, with no
\* pending write and the mode EXEC, and a write_cycle of a node that has no
\* pending write and is not in WRITE changes nothing. A MOV to a port leaves
\* pc and sets the pending write, and only a node that stands on a MOV to a
\* port has a pending write or is in WRITE.
C16_MovToAcc ==
    /\ [](\A n \in Nodes :
              (cpu[n].pending_write.some \/ cpu[n].exec_state.m = "WRITE") =>
                  (CurrentInsn(n).op = "MOV" /\ CurrentInsn(n).b.k = "Port"))
    /\ [][\A n \in Nodes :
             /\ (/\ ExecuteStep(n)
                 /\ Performs(n, {"MOV"})
                 /\ OperandValues(n) # {}) =>
                    \E x \in OperandValues(n) :
                        IF CurrentInsn(n).b.k = "ACC"
                        THEN cpu'[n] = [cpu[n] EXCEPT
                                           !.acc = x,
                                           !.pc = (@ + 1) % len(exe[n]),
                                           !.exec_state = EXEC,
                                           !.last = cpu'[n].last]
                        ELSE cpu'[n] = [cpu[n] EXCEPT
                                           !.pending_write =
                                               PendingWrite(CurrentInsn(n).b.p, x),
                                           !.exec_state = EXEC,
                                           !.last = cpu'[n].last]
             /\ (/\ WriteCycleStep(n)
                 /\ ~cpu[n].pending_write.some
                 /\ cpu[n].exec_state.m # "WRITE") =>
                    (cpu'[n] = cpu[n] /\ out' = out /\ inp' = inp)]_vars

\* Node 2 has executed MOV 10 ACC, and the write_cycle of that tick has
\* left it there.
C16_Witness ==
    /\ exe[2] = ProgMov
    /\ cpu[2].acc = 10
    /\ cpu[2].pc = 1
    /\ cpu[2].exec_state = EXEC
    /\ cpu[2].pending_write = NoWrite
    /\ phase = "exec"
    /\ ticks = 1

\* C17: on a node that has had no ANY read and no ANY write succeed, an
\* execute whose source is LAST reads the UP neighbour, taking its value
\* and completing the instruction with it or waiting in READ(LAST) when UP
\* is empty, and the write_cycle that commits a MOV to LAST deposits the
\* value in the UP slot and in no other.
C17_LastDefaultsToUp ==
    [][\A n \in Nodes \ any_done :
          /\ (/\ ExecuteStep(n)
              /\ ReadsPort(n)
              /\ CurrentInsn(n).a.p = "Last") =>
                 IF SourceSlot(n, "Up") = None
                 THEN /\ cpu'[n] = [cpu[n] EXCEPT !.exec_state = READ("Last")]
                      /\ out' = out
                      /\ inp' = inp
                 ELSE /\ ConsumesOnly(n, "Up")
                      /\ CompletesWith(n, SourceSlot(n, "Up").v)
          /\ (/\ WriteCycleStep(n)
              /\ cpu[n].pending_write.some
              /\ cpu[n].pending_write.port = "Last") =>
                 /\ panic' = ""
                 /\ \A d \in Cardinal :
                        get_port(out'[n], d) =
                            IF d = "Up" THEN Some(cpu[n].pending_write.val) ELSE None]_vars

\* Node 2, with no ANY operation behind it, has read the 1 of node 1
\* through LAST and deposited it through LAST in its UP slot.
C17_Witness ==
    /\ exe[2] = ProgLast
    /\ 2 \notin any_done
    /\ rcvd[2] = <<1>>
    /\ cpu[2].acc = 1
    /\ cpu[2].exec_state = WRITE("Last")
    /\ get_port(out[2], "Up") = Some(1)

\* C18: a port slot is a one-cell mailbox, for CpuPort and for each cardinal
\* slot of CpuWritePorts: a write to an empty slot stores the value and returns
\* true, a write to a full slot returns false and leaves the stored value, a
\* read of a full slot returns the stored value and empties the slot, a read
\* of an empty slot returns empty and changes nothing.
C18_Mailbox ==
    /\ (call.obj = "CpuPort" /\ call.fn = "write") =>
           IF call.before = None
           THEN call.ret = TRUE /\ cpu_port = Some(call.arg)
           ELSE call.ret = FALSE /\ cpu_port = call.before
    /\ (call.obj = "CpuPort" /\ call.fn = "read") =>
           IF call.before = None
           THEN call.ret = None /\ cpu_port = call.before
           ELSE call.ret = call.before /\ cpu_port = None
    /\ (call.obj = "CpuWritePorts" /\ call.fn = "write_port") =>
           IF get_port(call.before, call.port) = None
           THEN call.ret = TRUE /\ get_port(wports, call.port) = Some(call.arg)
           ELSE /\ call.ret = FALSE
                /\ get_port(wports, call.port) = get_port(call.before, call.port)
    /\ (call.obj = "CpuWritePorts" /\ call.fn = "read") =>
           IF get_port(call.before, call.port) = None
           THEN call.ret = None /\ wports = call.before
           ELSE /\ call.ret = get_port(call.before, call.port)
                /\ get_port(wports, call.port) = None

\* A write_port on a full slot of the CpuWritePorts was refused, while the
\* CpuPort holds a value.
C18_Witness ==
    /\ call.obj = "CpuWritePorts" /\ call.fn = "write_port"
    /\ get_port(call.before, call.port) # None
    /\ call.ret = FALSE
    /\ cpu_port # None

\* The instructions of an Executable, in order.
Insns(e) == [k \in 1..len(e) |-> insn_at(e, k - 1)]

\* "TOP:\nNOP\nJMP TOP" and "\nTOP:NOP\nJMP TOP"
TextTopAlone ==
    <<SourceLine("TOP", <<>>), SourceLine("", <<"NOP">>), SourceLine("", <<"JMP", "TOP">>)>>

TextTopInline ==
    <<SourceLine("", <<>>), SourceLine("TOP", <<"NOP">>), SourceLine("", <<"JMP", "TOP">>)>>

\* C19: in every Executable that parse returns, every label of the text is
\* bound to the index, in the instruction list, of the first instruction whose
\* source line is at or after the label's source line (so a label on a
\* label-only line binds to the next instruction); the texts
\* "TOP:\nNOP\nJMP TOP" and "\nTOP:NOP\nJMP TOP" are parsed to the same
\* instruction sequence with TOP bound to index 0.
C19_LabelBinding ==
    /\ parsed.kind = "Ok" =>
           \A i \in 1..Len(text) :
               text[i].label # "" =>
                   /\ to_ascii_uppercase(text[i].label) \in DOMAIN parsed.exe.labels
                   /\ label_line(parsed.exe, to_ascii_uppercase(text[i].label))
                          \in 0..(len(parsed.exe) - 1)
                   /\ \A k \in 0..(len(parsed.exe) - 1) :
                          (srcline_at(parsed.exe, k) >= i - 1) <=>
                              (k >= label_line(parsed.exe, to_ascii_uppercase(text[i].label)))
    /\ (parsed.kind # "none" /\ text \in {TextTopAlone, TextTopInline}) =>
           /\ parsed.kind = "Ok"
           /\ Insns(parsed.exe) = <<NOP, J("Unconditional", "TOP")>>
           /\ label_line(parsed.exe, "TOP") = 0

\* parse returned an Executable in which a label written on a label-only line
\* is bound to a later instruction that is not the first one, so that its
\* index differs from every source line number involved.
C19_Witness ==
    /\ parsed.kind = "Ok"
    /\ \E i \in 1..Len(text) :
           /\ text[i].label # "" /\ text[i].words = <<>>
           /\ label_line(parsed.exe, to_ascii_uppercase(text[i].label)) > 0
           /\ srcline_at(parsed.exe, label_line(parsed.exe, to_ascii_uppercase(text[i].label)))
                  > i - 1

\* Line i of the text is a jump, and no line of the text defines its label.
JumpsNowhere(i) ==
    /\ Len(text[i].words) = 2
    /\ to_ascii_uppercase(text[i].words[1]) \in {"JMP", "JEZ", "JNZ", "JGZ", "JLZ"}
    /\ \A j \in 1..Len(text) :
           to_ascii_uppercase(text[j].label) # to_ascii_uppercase(text[i].words[2])

\* C20: when every line of the text is well formed and some jump names a
\* label that no line defines, parse returns the error 'Jump to undefined
\* label'; in every Executable that parse returns, every jump's target is a
\* key of the label map and every label index lies in [0, number of
\* instructions).
C20_UndefinedLabel ==
    /\ (/\ parsed.kind # "none"
        /\ \A i \in 1..Len(text) : Line_from_str(text[i]).ok
        /\ \E i \in 1..Len(text) : JumpsNowhere(i)) =>
           parsed = ParseErr("Jump to undefined label")
    /\ parsed.kind = "Ok" =>
           /\ \A k \in 0..(len(parsed.exe) - 1) :
                  insn_at(parsed.exe, k).op = "J" =>
                      insn_at(parsed.exe, k).dst \in DOMAIN parsed.exe.labels
           /\ \A label \in DOMAIN parsed.exe.labels :
                  label_line(parsed.exe, label) \in 0..(len(parsed.exe) - 1)

\* Every line of the text is well formed.
WellFormed == \A i \in 1..Len(text) : Line_from_str(text[i]).ok

\* Line i carries a label and no instruction stands at or after it.
Trailing(i) ==
    /\ text[i].label # ""
    /\ \A j \in i..Len(text) : text[j].words = <<>>

\* Some jump of the text names the label of line i.
Referenced(i) ==
    \E j \in 1..Len(text) :
        /\ Len(text[j].words) = 2
        /\ to_ascii_uppercase(text[j].words[1]) \in {"JMP", "JEZ", "JNZ", "JGZ", "JLZ"}
        /\ to_ascii_uppercase(text[j].words[2]) = to_ascii_uppercase(text[i].label)

\* Lines i and j define the same label, after case folding.
SameLabel(i, j) ==
    /\ i # j
    /\ text[i].label # ""
    /\ to_ascii_uppercase(text[i].label) = to_ascii_uppercase(text[j].label)

\* C21: a well-formed text with a label that has no instruction at or after
\* its line, in which no such label is referenced by a jump (and which has no
\* other fault: no jump to an undefined label, no label defined twice), is
\* parsed without failure.
C21_TrailingLabel ==
    (/\ parsed.kind # "none"
     /\ WellFormed
     /\ \E i \in 1..Len(text) : Trailing(i)
     /\ \A i \in 1..Len(text) : Trailing(i) => ~Referenced(i)
     /\ \A i \in 1..Len(text) : ~JumpsNowhere(i)
     /\ \A i, j \in 1..Len(text) : ~SameLabel(i, j)) =>
        parsed.kind = "Ok"

\* The line of the first instruction at or after line i, 0 when there is none.
BindsAt(i) ==
    IF \E j \in i..Len(text) : text[j].words # <<>>
    THEN CHOOSE j \in i..Len(text) :
             /\ text[j].words # <<>>
             /\ \A m \in i..(j - 1) : text[m].words = <<>>
    ELSE 0

\* C22: a well-formed text that defines the same label (after case folding)
\* on two lines that would bind to different instructions is rejected with a
\* parse error returned to the caller: parse neither returns an Executable
\* nor aborts.
C22_DuplicateLabel ==
    (/\ parsed.kind # "none"
     /\ WellFormed
     /\ \E i, j \in 1..Len(text) : SameLabel(i, j) /\ BindsAt(i) # BindsAt(j)) =>
        parsed.kind = "Err"

\* Node 1 built by Cpu::new on Executable e and standing at instruction k, with
\* a value waiting in every slot it can read from.
Loaded(e, k) ==
    [exe |-> [n \in Nodes |-> e],
     cpu |-> [n \in Nodes |-> [Cpu_new EXCEPT !.pc = k]],
     out |-> [n \in Nodes |-> set_all(CpuWritePorts_new, Some(1))],
     inp |-> [x \in ExtInputs |-> set_all(CpuWritePorts_new, Some(1))],
     panic |-> "", overflow_checks |-> FALSE, reads |-> <<>>, writes |-> <<>>]

\* Line i of the text is a MOV of a valid source to a literal.
MovToLiteral(i) ==
    /\ Len(text[i].words) = 3
    /\ to_ascii_uppercase(text[i].words[1]) = "MOV"
    /\ Operand_from_str(to_ascii_uppercase(text[i].words[2])).ok
    /\ i32_from_str(text[i].words[3]).ok

\* C23: no Executable that parse returns contains a MOV whose destination is
\* a literal: a text whose first faulty line is such a MOV is rejected with
\* the literal-as-destination error, and execute on a parsed program, at
\* whatever instruction and with every source operand available, does not
\* abort with 'Cannot store to a literal'.
C23_NoLiteralDst ==
    /\ parsed.kind = "Ok" =>
           \A k \in 0..(len(parsed.exe) - 1) :
               /\ insn_at(parsed.exe, k).op = "MOV" => insn_at(parsed.exe, k).b.k # "Lit"
               /\ execute(Loaded(parsed.exe, k), 1).G.panic # "Cannot store to a literal"
    /\ (/\ parsed.kind # "none"
        /\ \E i \in 1..Len(text) :
               /\ MovToLiteral(i)
               /\ \A j \in 1..(i - 1) : Line_from_str(text[j]).ok) =>
           parsed = ParseErr(LIT_DST_ERR)

\* parse returned an Executable with a MOV in it, and execute has performed
\* that MOV: the literal 10 is in acc.
C23_Witness ==
    /\ parsed.kind = "Ok"
    /\ \E k \in 0..(len(parsed.exe) - 1) :
           /\ insn_at(parsed.exe, k).op = "MOV"
           /\ execute(Loaded(parsed.exe, k), 1).ret
           /\ execute(Loaded(parsed.exe, k), 1).G.cpu[1].acc = 10

\* C24: in every Executable that parse returns, instruction k carries the
\* 0-based index of the source line it was written on, blank and label-only
\* lines counted, and is the k-th instruction of the text; current_line of a
\* Cpu standing at k is that source line, while pc after an execute and the
\* label bindings are instruction indices.
C24_SourceLines ==
    parsed.kind = "Ok" =>
        /\ \A k \in 0..(len(parsed.exe) - 1) :
               /\ srcline_at(parsed.exe, k) \in 0..(Len(text) - 1)
               /\ text[srcline_at(parsed.exe, k) + 1].words # <<>>
               /\ Some(insn_at(parsed.exe, k)) =
                      Line_from_str(text[srcline_at(parsed.exe, k) + 1]).v.insn
               /\ Cardinality({j \in 1..srcline_at(parsed.exe, k) : text[j].words # <<>>}) = k
               /\ current_line(Loaded(parsed.exe, k), 1) = srcline_at(parsed.exe, k)
               /\ execute(Loaded(parsed.exe, k), 1).G.cpu[1].pc \in 0..(len(parsed.exe) - 1)
        /\ \A label \in DOMAIN parsed.exe.labels :
               label_line(parsed.exe, label) \in 0..(len(parsed.exe) - 1)

\* parse returned an Executable of a text with a blank line between two
\* instructions; execute of the first has moved pc to the second, and
\* current_line there is a source line larger than pc.
C24_Witness ==
    /\ parsed.kind = "Ok"
    /\ \E k \in 1..(len(parsed.exe) - 1) :
           /\ text[srcline_at(parsed.exe, k)] = SourceLine("", <<>>)
           /\ execute(Loaded(parsed.exe, k - 1), 1).G.cpu[1].pc = k
           /\ current_line(execute(Loaded(parsed.exe, k - 1), 1).G, 1) > k

\* The write slots of node n that are full.
FullSlots(n) == {d \in Cardinal : get_port(out[n], d) # None}

\* C25: of the four write slots of a node, none, one or all four are full,
\* and the full ones hold the same value; while the node waits on a write to
\* a cardinal direction or to LAST at most one is full, and while it waits on
\* a write to ANY all four are full with one value or all four are empty.
C25_SlotPattern ==
    \A n \in Nodes :
        /\ Cardinality(FullSlots(n)) \in {0, 1, 4}
        /\ \A d, e \in FullSlots(n) : get_port(out[n], d) = get_port(out[n], e)
        /\ (cpu[n].exec_state.m = "WRITE" /\ cpu[n].exec_state.p # "Any") =>
               Cardinality(FullSlots(n)) <= 1
        /\ (cpu[n].exec_state.m = "WRITE" /\ cpu[n].exec_state.p = "Any") =>
               FullSlots(n) \in {{}, Cardinal}

\* Node 1 waits on MOV 1 DOWN with the DOWN slot full, and node 2 on
\* MOV 3 UP with the UP slot full.
C25_Witness ==
    /\ exe[1] = ProgTwoWay
    /\ cpu[1].exec_state = WRITE("Down") /\ FullSlots(1) = {"Down"}
    /\ cpu[2].exec_state = WRITE("Up") /\ FullSlots(2) = {"Up"}

\* The slots a write of node n to port is deposited into.
TargetSlots(n, port) ==
    CASE port = "Any" -> Cardinal
      [] port = "Last" -> {cpu[n].last}
      [] OTHER -> {port}

\* C26: a write_cycle that deposits a pending write finds the slots of the
\* node empty and succeeds: it does not abort and afterwards the value is in
\* the target slot; and an execute that leaves a write pending finds the
\* slots of the node empty, so no new write is attempted over a full slot.
C26_DepositSucceeds ==
    [][\A n \in Nodes :
          /\ (WriteCycleStep(n) /\ cpu[n].pending_write.some) =>
                 /\ AllEmpty(out[n])
                 /\ panic' = ""
                 /\ \A d \in TargetSlots(n, cpu[n].pending_write.port) :
                        get_port(out'[n], d) = Some(cpu[n].pending_write.val)
          /\ (ExecuteStep(n) /\ cpu'[n].pending_write.some) => AllEmpty(out[n])]_vars

\* C27: with every execute followed by a write_cycle before the next
\* execute, execute finds no write pending and its assertion does not fire;
\* every write_cycle leaves no write pending; and a write is pending only
\* between the execute of a MOV to a port and the write_cycle of the same
\* tick, and it is the write of that MOV.
C27_NoPendingAtExecute ==
    /\ [](\A n \in Nodes :
             /\ panic # "assertion failed: pending_write == None"
             /\ cpu[n].pending_write.some =>
                    /\ (phase = "exec" /\ n \in done) \/ (phase = "commit" /\ n \notin done)
                    /\ CurrentInsn(n).op = "MOV"
                    /\ CurrentInsn(n).b = OpPort(cpu[n].pending_write.port))
    /\ [][\A n \in Nodes :
             /\ ExecuteStep(n) => cpu[n].pending_write = NoWrite
             /\ WriteCycleStep(n) => cpu'[n].pending_write = NoWrite]_vars

\* Node 1 has had MOV 1 DOWN committed and read by node 2, and its next
\* execute has left the write of MOV 2 DOWN pending.
C27_Witness ==
    /\ exe[1] = ProgCount
    /\ cpu[1].pending_write = PendingWrite("Down", 2)
    /\ phase = "commit"
    /\ panic = ""

\* A tick has ended and the next has not begun.
TickBoundary == phase = "exec" /\ done = {}

\* C28: at every tick boundary a node with a full write slot is in WRITE
\* mode; a node in EXEC or READ mode has its four write slots empty.
C28_FullSlotMeansWrite ==
    TickBoundary => \A n \in Nodes : FullSlots(n) # {} => cpu[n].exec_state.m = "WRITE"

\* After the first tick node 2 waits in WRITE(DOWN) with the 10 of
\* MOV 10 DOWN in its DOWN slot, and node 1, blocked in READ(UP) on ADD UP,
\* has its four slots empty.
C28_Witness ==
    /\ TickBoundary
    /\ ticks = 1
    /\ exe[2] = ProgPortWrite
    /\ cpu[2].exec_state = WRITE("Down") /\ FullSlots(2) = {"Down"}
    /\ cpu[1].exec_state = READ("Up") /\ FullSlots(1) = {}

\* With the node states c and the slots o, node a waits in WRITE on a MOV
\* towards its neighbour, and the value is in the slot.
WaitsOn(c, o, a) ==
    /\ c[a].exec_state = WRITE(Facing(a))
    /\ get_port(o[a], Facing(a)) # None

\* With the node states c, node b is at, or blocked on, an instruction whose
\* source is the port towards its neighbour.
ReaderReady(c, b) ==
    /\ len(exe[b]) >= 1
    /\ c[b].exec_state.m # "WRITE"
    /\ insn_at(exe[b], c[b].pc).op \in {"MOV", "ADD", "SUB", "JRO"}
    /\ insn_at(exe[b], c[b].pc).a = OpPort(Facing(b))

\* The step that ends a tick.
TickEnds == phase = "commit" /\ phase' = "exec"

\* C29: a MOV to the neighbour that is committed in a tick leaves the writer
\* in WRITE with the value in the slot when that tick ends; and when the
\* writer so waits at the beginning of a tick in which the neighbour is at,
\* or blocked on, an instruction reading that port, the neighbour's execute
\* of that tick takes the value and completes its instruction with it, and
\* when the tick ends the writer is in EXEC with pc advanced by one.
C29_Rendezvous ==
    [][\A a \in Nodes :
          /\ (/\ TickEnds
              /\ tick0.cpu[a].exec_state.m # "WRITE"
              /\ cpu'[a].exec_state = WRITE(Facing(a))) =>
                 /\ get_port(out'[a], Facing(a)) # None
                 /\ cpu'[a].pc = tick0.cpu[a].pc
                 /\ rcvd'[Neighbour(a, Facing(a))] = tick0.rcvd[Neighbour(a, Facing(a))]
          /\ (/\ ExecuteStep(Neighbour(a, Facing(a)))
              /\ WaitsOn(cpu, out, a)
              /\ ReaderReady(cpu, Neighbour(a, Facing(a)))) =>
                 /\ ConsumesOnly(Neighbour(a, Facing(a)), Opposite(Facing(a)))
                 /\ CompletesWith(Neighbour(a, Facing(a)), get_port(out[a], Facing(a)).v)
          /\ (/\ TickEnds
              /\ WaitsOn(tick0.cpu, tick0.out, a)
              /\ ReaderReady(tick0.cpu, Neighbour(a, Facing(a)))) =>
                 /\ cpu'[a].exec_state = EXEC
                 /\ cpu'[a].pc = (tick0.cpu[a].pc + 1) % len(exe[a])
                 /\ AllEmpty(out'[a])
                 /\ rcvd'[Neighbour(a, Facing(a))] =
                        Append(tick0.rcvd[Neighbour(a, Facing(a))],
                               get_port(tick0.out[a], Facing(a)).v)]_vars

\* Node 1 executed MOV 1 DOWN in the first tick while node 2 blocked on
\* ADD UP; in the second tick node 2 has added the 1, and node 1 is back in
\* EXEC at its second instruction.
C29_Witness ==
    /\ exe[1] = ProgCount /\ exe[2] = ProgAdd
    /\ TickBoundary
    /\ ticks = 2
    /\ tick0.cpu[1].exec_state = EXEC /\ tick0.cpu[1].pc = 1
    /\ cpu[2].acc = 1
    /\ rcvd[2] = <<1>>

\* Both nodes wait in WRITE on a MOV towards each other, each with its value
\* in the slot that only the other reads.
MutualWrite == \A n \in Nodes : WaitsOn(cpu, out, n)

\* C30: once two adjacent nodes are both in WRITE mode towards each other,
\* no step changes either node: mode, pc, acc and bak stay, no read is
\* performed, the slots keep their values, and the nodes are in that state
\* ever after.
C30_MutualWriteForever ==
    [][MutualWrite =>
          /\ cpu' = cpu
          /\ out' = out
          /\ rcvd' = rcvd
          /\ sent' = sent
          /\ panic' = ""
          /\ MutualWrite']_vars

\* Nodes 1 and 2 committed MOV 1 DOWN and MOV 3 UP in the first tick, and
\* three more ticks have passed with both still in WRITE at instruction 0.
C30_Witness ==
    /\ exe[1] = ProgTwoWay /\ exe[2] = ProgWriteUp
    /\ MutualWrite
    /\ cpu[1].pc = 0 /\ cpu[2].pc = 0
    /\ get_port(out[1], "Down") = Some(1) /\ get_port(out[2], "Up") = Some(3)
    /\ ticks = 4

====
